---- MODULE Spec2Model ----
(***************************************************************************)
(* Model of the rotating shop generator (generate_shop.py) and of the      *)
(* reader of its state file (post_shop_to_discord.py).                     *)
(*                                                                         *)
(* Time is the wall clock in whole seconds since 00:00:00 UTC of day 0;    *)
(* microseconds are not represented.  A datetime is a record               *)
(* [aware, t]: aware tells whether it carries the UTC offset, t is the     *)
(* instant (aware) or the wall digits (naive), in seconds.                 *)
(***************************************************************************)
EXTENDS Integers, Sequences, FiniteSets, TLC

\* ------------------------------------------------------------ configuration
SHOP_SIZE == 3
TIME_INTERVAL_MINUTES == 5

\* ------------------------------------------------------------------ bounds
\* first wall-clock instant of a behaviour: 23:50:00 of day 0, so that the
\* runs cross an hour and a day boundary
StartTime == 85800
\* the free-running clock advances in steps of ClockStep seconds ...
ClockStep == 150
\* ... up to StartTime + Horizon
Horizon == 600
\* invocations of one engine in a behaviour
MaxRuns == 3
\* secret keys are 1 .. NumKeys
NumKeys == 1

MaxTime == StartTime + Horizon
IntervalSeconds == TIME_INTERVAL_MINUTES * 60
Engines == {1, 2}
Keys == 1 .. NumKeys

\* ------------------------------------------------------------ weight tables
\* An Egg is [name, chance]; chances are the CSV's numbers scaled to integers.
Egg(n, c) == [name |-> n, chance |-> c]

\* the tables a behaviour may be started with: valid, empty, summing to
\* zero, and with a negative weight but a positive sum
Tables ==
    { << Egg("Slime", 7), Egg("Rock", 3) >>,
      << >>,
      << Egg("Slime", 0), Egg("Rock", 0) >>,
      << Egg("Slime", 2), Egg("Rock", -1), Egg("Gold", 3) >> }

egg_names(eggs) == [i \in 1 .. Len(eggs) |-> eggs[i].name]
egg_weights(eggs) == [i \in 1 .. Len(eggs) |-> eggs[i].chance]

\* ----------------------------------------------------------- seed derivation
\* dt.strftime("%Y-%m-%dT%H:%M"): the date, hour and minute fields of the
\* datetime's own digits; seconds are dropped.
strftime(dt) ==
    << dt.t \div 86400, (dt.t \div 3600) % 24, (dt.t \div 60) % 60 >>

\* stand-in for hashlib.sha256 of "key:time_str" read as an integer: a fixed
\* mixing function of the key and of every field of the string
sha256_int(secret_key, time_str) ==
    (secret_key * 7919 + time_str[1] * 104729 + time_str[2] * 1299709
        + time_str[3] * 15485863 + 12345) % 65536

create_seed(secret_key, dt) == sha256_int(secret_key, strftime(dt))

\* ------------------------------------------------------------------ sampler
\* random.Random(seed): stand-in generator, a full-period linear
\* congruential sequence modulo 1024; the k-th call of random() returns
\* rng_state(seed, k) / 1024, a value in [0, 1).
RECURSIVE rng_state(_, _)
rng_state(seed, k) ==
    IF k = 0 THEN seed % 1024
    ELSE (rng_state(seed, k - 1) * 77 + 331) % 1024

\* itertools.accumulate(weights)
RECURSIVE accumulate(_, _)
accumulate(weights, i) ==
    IF i = 0 THEN 0 ELSE accumulate(weights, i - 1) + weights[i]

cum_weights(weights) == [i \in 1 .. Len(weights) |-> accumulate(weights, i)]

\* bisect.bisect(a, x, lo, hi) with x = r / 1024 * total, on 0-based
\* positions lo .. hi of a: the binary search of the library, which does not
\* require a to be sorted to terminate.
RECURSIVE bisect(_, _, _, _, _)
bisect(a, r, total, lo, hi) ==
    IF lo >= hi THEN lo
    ELSE LET mid == (lo + hi) \div 2
         IN  IF r * total < a[mid + 1] * 1024
             THEN bisect(a, r, total, lo, mid)
             ELSE bisect(a, r, total, mid + 1, hi)

\* random.choices raises ValueError("Total of weights must be greater than
\* zero") when the total is not positive
choices_raises(weights) == accumulate(weights, Len(weights)) <= 0

\* rng.choices(population, weights=weights, k=k)
choices(seed, population, weights, k) ==
    LET cum == cum_weights(weights)
        total == accumulate(weights, Len(weights))
        n == Len(population)
    IN  [j \in 1 .. k |->
            population[bisect(cum, rng_state(seed, j), total, 0, n - 1) + 1]]

generate_shop_inventory(secret_key, eggs, seed_dt) ==
    choices(create_seed(secret_key, seed_dt), egg_names(eggs),
            egg_weights(eggs), SHOP_SIZE)

\* ------------------------------------------------------------------- clock
utc(t) == [aware |-> TRUE, t |-> t]

timedelta_minutes(dt, m) == [dt EXCEPT !.t = dt.t + m * 60]

\* get_current_time_slot without the seconds in the timedelta
get_current_time_slot_keeps_seconds(now_utc) ==
    LET minute == (now_utc.t \div 60) % 60
    IN  [now_utc EXCEPT
            !.t = now_utc.t - (minute % TIME_INTERVAL_MINUTES) * 60]

\* get_current_time_slot with datetime.now(timezone.utc) = now_utc
get_current_time_slot(now_utc) ==
    LET minute == (now_utc.t \div 60) % 60
        second == now_utc.t % 60
    IN  [now_utc EXCEPT
            !.t = now_utc.t
                  - ((minute % TIME_INTERVAL_MINUTES) * 60 + second)]

\* wait_for_next_interval taking the slot itself as the instant to wait for
wait_seconds_to_slot_start(current_time_slot, now_utc) ==
    current_time_slot.t - now_utc.t

\* wait_for_next_interval adding the interval twice to the slot
wait_seconds_two_intervals(current_time_slot, now_utc) ==
    timedelta_minutes(current_time_slot, 2 * TIME_INTERVAL_MINUTES).t
        - now_utc.t

\* (next_interval_start - now_utc).total_seconds() of wait_for_next_interval
wait_seconds(current_time_slot, now_utc) ==
    timedelta_minutes(current_time_slot, TIME_INTERVAL_MINUTES).t - now_utc.t

\* datetime.__eq__: an aware and a naive datetime are never equal
datetime_eq(a, b) == a.aware = b.aware /\ a.t = b.t

\* --------------------------------------------------------------- ShopState
ShopState(generated_at, current_shop, next_shop) ==
    [some |-> TRUE, generated_at |-> generated_at,
     current_shop |-> current_shop, next_shop |-> next_shop]

\* Python's None where a ShopState is expected
None ==
    [some |-> FALSE, generated_at |-> [aware |-> FALSE, t |-> 0],
     current_shop |-> << >>, next_shop |-> << >>]

\* generate_shops_for_time seeding the next shop with the current slot
generate_shops_same_slot(secret_key, eggs, current_time_slot) ==
    ShopState(current_time_slot,
              generate_shop_inventory(secret_key, eggs, current_time_slot),
              generate_shop_inventory(secret_key, eggs, current_time_slot))

generate_shops_for_time(secret_key, eggs, current_time_slot) ==
    ShopState(current_time_slot,
              generate_shop_inventory(secret_key, eggs, current_time_slot),
              generate_shop_inventory(secret_key, eggs,
                  timedelta_minutes(current_time_slot, TIME_INTERVAL_MINUTES)))

\* ------------------------------------------------------- the state file
\* A timestamp as text is [form, t]: the digits t and what follows them.
\*   "Z", "+00:00"  a UTC offset suffix      "naive"   no suffix
\*   "badstr"       a string fromisoformat rejects
\*   "number"       a JSON number in place of the string
Stamp(form, t) == [form |-> form, t |-> t]

\* isoformat leaving out the UTC offset
isoformat_no_offset(dt) == Stamp("naive", dt.t)

\* datetime.isoformat(): digits, then "+00:00" for an aware UTC datetime
isoformat(dt) == Stamp(IF dt.aware THEN "+00:00" ELSE "naive", dt.t)

\* str.replace(old, new) on the suffix of a timestamp text
replace(stamp, old, new) ==
    IF stamp.form = old THEN [stamp EXCEPT !.form = new] ELSE stamp

\* datetime.fromisoformat raises ValueError on these
fromisoformat_raises(stamp) == stamp.form \notin {"+00:00", "naive"}

fromisoformat(stamp) == [aware |-> stamp.form = "+00:00", t |-> stamp.t]

\* A file is [kind, keys, ga, cur, next].
\*   "absent"     no file            "empty"      a file of zero bytes
\*   "badjson"    text json.load rejects
\*   "nonobject"  valid JSON that is not an object (a list)
\*   "object"     a JSON object with the keys in keys
AllKeys == {"generated_at", "current_shop", "next_shop"}

FileOf(kind) ==
    [kind |-> kind, keys |-> {}, ga |-> Stamp("naive", 0),
     cur |-> << >>, next |-> << >>]

NoFile == FileOf("absent")
EmptyFile == FileOf("empty")

JsonObject(keys, ga, cur, next) ==
    [kind |-> "object", keys |-> keys, ga |-> ga, cur |-> cur, next |-> next]

\* ShopState.to_dict followed by json.dump: the complete file text
to_dict(state) ==
    JsonObject(AllKeys, replace(isoformat(state.generated_at), "+00:00", "Z"),
               state.current_shop, state.next_shop)

\* json.load raises JSONDecodeError (a ValueError) on these
json_load_raises(f) == f.kind \in {"empty", "badjson"}

\* ShopState.from_dict(data): "raise" is an exception the method does not
\* catch (AttributeError of a non-string generated_at), "none" is the
\* caught KeyError / TypeError / ValueError.
from_dict_outcome(data) ==
    IF data.kind # "object" THEN "none"
    ELSE IF "generated_at" \notin data.keys THEN "none"
    ELSE IF data.ga.form = "number" THEN "raise"
    ELSE IF fromisoformat_raises(replace(data.ga, "Z", "+00:00")) THEN "none"
    ELSE IF "current_shop" \notin data.keys THEN "none"
    ELSE IF "next_shop" \notin data.keys THEN "none"
    ELSE "ok"

from_dict(data) ==
    IF from_dict_outcome(data) = "ok"
    THEN ShopState(fromisoformat(replace(data.ga, "Z", "+00:00")),
                   data.cur, data.next)
    ELSE None

\* ------------------------------------------------------------------- state
VARIABLES
    now,                \* wall clock, seconds
    secret_key,         \* args.secret_key
    eggs,               \* the loaded weight table
    file,               \* file[e]: content of engine e's output file
    pc,                 \* pc[e]: position of engine e's run of main
    current_time_slot,  \* main's local, per engine
    existing_state,     \* main's local, per engine
    final_state,        \* main's local, per engine
    wakeAt,             \* wall-clock instant the sleep of engine e ends
    err,                \* exception that ended engine e's run, or "none"
    runs,               \* invocations of engine e so far
    startTime,          \* wall clock when engine e's run read the clock
    file0,              \* content of the file when engine e's run began
    sampled,            \* calls of _generate_shop_inventory in the run
    writeTime,          \* wall clock when engine e's run closed the file
    ops,                \* the run's file reads, samplings, waits and writes
    posted              \* what the poster's on_ready last read

vars ==
    << now, secret_key, eggs, file, pc, current_time_slot, existing_state,
       final_state, wakeAt, err, runs, startTime, file0, sampled, writeTime,
       ops, posted >>

locals == << current_time_slot, existing_state, final_state, wakeAt >>
history == << startTime, file0, sampled, writeTime >>

\* before the first invocation: no file, nothing running
NothingRun ==
    /\ secret_key \in Keys
    /\ eggs \in Tables
    /\ file = [e \in Engines |-> NoFile]
    /\ pc = [e \in Engines |-> "idle"]
    /\ current_time_slot = [e \in Engines |-> utc(0)]
    /\ existing_state = [e \in Engines |-> None]
    /\ final_state = [e \in Engines |-> None]
    /\ wakeAt = [e \in Engines |-> 0]
    /\ err = [e \in Engines |-> "none"]
    /\ runs = [e \in Engines |-> 0]
    /\ startTime = [e \in Engines |-> 0]
    /\ file0 = [e \in Engines |-> NoFile]
    /\ sampled = [e \in Engines |-> 0]
    /\ writeTime = [e \in Engines |-> 0]
    /\ ops = [e \in Engines |-> << >>]
    /\ posted = [status |-> "unread", eggs |-> << >>]

Init ==
    /\ now = StartTime
    /\ NothingRun

\* ----------------------------------------------------------------- actions
Crash(e, exception) ==
    /\ pc' = [pc EXCEPT ![e] = "crashed"]
    /\ err' = [err EXCEPT ![e] = exception]

\* the run of engine e goes through the operations in done, in this order
Did(e, done) == ops' = [ops EXCEPT ![e] = @ \o done]

\* main, lines 162-168: the process starts, builds the generator and reads
\* the clock.  ShopGenerator.__init__ raises ValueError on an empty table,
\* which main does not catch.
Invoke(e) ==
    /\ pc[e] = "idle"
    /\ runs[e] < MaxRuns
    /\ runs' = [runs EXCEPT ![e] = @ + 1]
    /\ file0' = [file0 EXCEPT ![e] = file[e]]
    /\ sampled' = [sampled EXCEPT ![e] = 0]
    /\ ops' = [ops EXCEPT ![e] = << >>]
    /\ startTime' = [startTime EXCEPT ![e] = now]
    /\ existing_state' = [existing_state EXCEPT ![e] = None]
    /\ final_state' = [final_state EXCEPT ![e] = None]
    /\ IF eggs = << >>
       THEN /\ Crash(e, "ValueError: Egg list cannot be empty.")
            /\ UNCHANGED current_time_slot
       ELSE /\ pc' = [pc EXCEPT ![e] = "load"]
            /\ err' = [err EXCEPT ![e] = "none"]
            /\ current_time_slot' =
                   [current_time_slot EXCEPT
                        ![e] = get_current_time_slot(utc(now))]
    /\ UNCHANGED << now, secret_key, eggs, file, wakeAt, writeTime, posted >>

\* main, lines 171-174: read the previous state.  json.load is outside
\* from_dict's try block: its JSONDecodeError ends the run.
Load(e) ==
    /\ pc[e] = "load"
    /\ IF file[e].kind = "absent"
       THEN /\ pc' = [pc EXCEPT ![e] = "decide"]
            /\ UNCHANGED << err, existing_state, ops >>
       ELSE IF json_load_raises(file[e])
       THEN /\ Crash(e, "JSONDecodeError")
            /\ Did(e, << "read" >>)
            /\ UNCHANGED existing_state
       ELSE IF from_dict_outcome(file[e]) = "raise"
       THEN /\ Crash(e, "AttributeError")
            /\ Did(e, << "read" >>)
            /\ UNCHANGED existing_state
       ELSE /\ pc' = [pc EXCEPT ![e] = "decide"]
            /\ Did(e, << "read" >>)
            /\ existing_state' =
                   [existing_state EXCEPT ![e] = from_dict(file[e])]
            /\ UNCHANGED err
    /\ UNCHANGED << now, secret_key, eggs, file, current_time_slot,
                    final_state, wakeAt, runs, history, posted >>

\* line 177 never reusing the state on file
up_to_date_never(existing, slot) == FALSE

\* line 177 with >= in place of ==
up_to_date_or_later(existing, slot) ==
    existing.some /\ existing.generated_at.aware = slot.aware
                  /\ existing.generated_at.t >= slot.t

\* main, line 177: the state on file is reused
up_to_date(existing, slot) ==
    existing.some /\ datetime_eq(existing.generated_at, slot)

\* lines 176-188 with the output file opened before the state is chosen
Decide_after_open(e) ==
    /\ pc[e] = "decide"
    /\ IF up_to_date(existing_state[e], current_time_slot[e])
       THEN /\ final_state' = [final_state EXCEPT ![e] = existing_state[e]]
            /\ pc' = [pc EXCEPT ![e] = "wait"]
            /\ UNCHANGED << err, sampled, file, ops >>
       ELSE IF choices_raises(egg_weights(eggs))
       THEN /\ Crash(e, "ValueError: Total of weights must be greater than zero")
            /\ sampled' = [sampled EXCEPT ![e] = 1]
            /\ Did(e, << "sample" >>)
            /\ file' = [file EXCEPT ![e] = EmptyFile]
            /\ UNCHANGED final_state
       ELSE /\ final_state' =
                   [final_state EXCEPT
                        ![e] = generate_shops_for_time(secret_key, eggs,
                                                       current_time_slot[e])]
            /\ sampled' = [sampled EXCEPT ![e] = 2]
            /\ Did(e, << "sample", "sample" >>)
            /\ pc' = [pc EXCEPT ![e] = "wait"]
            /\ UNCHANGED << err, file >>
    /\ UNCHANGED << now, secret_key, eggs, current_time_slot,
                    existing_state, wakeAt, runs, startTime, file0,
                    writeTime, posted >>

\* main, lines 176-181: choose the state to write.  The ValueError of
\* random.choices (total weight not positive) ends the run.
Decide(e) ==
    /\ pc[e] = "decide"
    /\ IF up_to_date(existing_state[e], current_time_slot[e])
       THEN /\ final_state' = [final_state EXCEPT ![e] = existing_state[e]]
            /\ pc' = [pc EXCEPT ![e] = "wait"]
            /\ UNCHANGED << err, sampled, ops >>
       ELSE IF choices_raises(egg_weights(eggs))
       THEN /\ Crash(e, "ValueError: Total of weights must be greater than zero")
            /\ sampled' = [sampled EXCEPT ![e] = 1]
            /\ Did(e, << "sample" >>)
            /\ UNCHANGED final_state
       ELSE /\ final_state' =
                   [final_state EXCEPT
                        ![e] = generate_shops_for_time(secret_key, eggs,
                                                       current_time_slot[e])]
            /\ sampled' = [sampled EXCEPT ![e] = 2]
            /\ Did(e, << "sample", "sample" >>)
            /\ pc' = [pc EXCEPT ![e] = "wait"]
            /\ UNCHANGED err
    /\ UNCHANGED << now, secret_key, eggs, file, current_time_slot,
                    existing_state, wakeAt, runs, startTime, file0,
                    writeTime, posted >>

\* wait_for_next_interval, lines 135-146: sleep for the time left to the
\* next interval, or go on at once when there is none left
Wait(e) ==
    /\ pc[e] = "wait"
    /\ IF wait_seconds(current_time_slot[e], utc(now)) > 0
       THEN /\ pc' = [pc EXCEPT ![e] = "sleeping"]
            /\ wakeAt' = [wakeAt EXCEPT
                   ![e] = now + wait_seconds(current_time_slot[e], utc(now))]
       ELSE /\ pc' = [pc EXCEPT ![e] = "write"]
            /\ UNCHANGED wakeAt
    /\ Did(e, << "wait" >>)
    /\ UNCHANGED << now, secret_key, eggs, file, current_time_slot,
                    existing_state, final_state, err, runs, history, posted >>

\* time.sleep returns once the requested time has gone by, at the earliest
Wake(e) ==
    /\ pc[e] = "sleeping"
    /\ now >= wakeAt[e]
    /\ pc' = [pc EXCEPT ![e] = "write"]
    /\ UNCHANGED << now, secret_key, eggs, file, current_time_slot,
                    existing_state, final_state, wakeAt, err, runs, history,
                    ops, posted >>

\* main, line 187: open(..., "w") creates the file or truncates it to zero
\* bytes
WriteOpen(e) ==
    /\ pc[e] = "write"
    /\ file' = [file EXCEPT ![e] = EmptyFile]
    /\ pc' = [pc EXCEPT ![e] = "dump"]
    /\ Did(e, << "write" >>)
    /\ UNCHANGED << now, secret_key, eggs, current_time_slot, existing_state,
                    final_state, wakeAt, err, runs, history, posted >>

\* lines 168-188 wrapped in a loop: after the write the run reads the clock
\* and the file again
WriteClose_loops(e) ==
    /\ pc[e] = "dump"
    /\ file' = [file EXCEPT ![e] = to_dict(final_state[e])]
    /\ writeTime' = [writeTime EXCEPT ![e] = now]
    /\ pc' = [pc EXCEPT ![e] = "load"]
    /\ current_time_slot' =
           [current_time_slot EXCEPT ![e] = get_current_time_slot(utc(now))]
    /\ UNCHANGED << now, secret_key, eggs, existing_state,
                    final_state, wakeAt, err, runs, startTime, file0, sampled,
                    ops, posted >>

\* main, line 188: json.dump and the close of the with block put the whole
\* text in the file
WriteClose(e) ==
    /\ pc[e] = "dump"
    /\ file' = [file EXCEPT ![e] = to_dict(final_state[e])]
    /\ writeTime' = [writeTime EXCEPT ![e] = now]
    /\ pc' = [pc EXCEPT ![e] = "done"]
    /\ UNCHANGED << now, secret_key, eggs, current_time_slot, existing_state,
                    final_state, wakeAt, err, runs, startTime, file0, sampled,
                    ops, posted >>

\* main, lines 187-188: the write fails (OSError: disk full, I/O error)
\* after the file was opened
WriteFail(e) ==
    /\ pc[e] = "dump"
    /\ Crash(e, "OSError")
    /\ UNCHANGED << now, secret_key, eggs, file, locals, runs, history,
                    ops, posted >>

\* main returns (line 192) or the uncaught exception ends the process: the
\* locals are gone, only the file remains
Exit(e) ==
    /\ pc[e] \in {"done", "crashed"}
    /\ pc' = [pc EXCEPT ![e] = "idle"]
    /\ err' = [err EXCEPT ![e] = "none"]
    /\ current_time_slot' = [current_time_slot EXCEPT ![e] = utc(0)]
    /\ existing_state' = [existing_state EXCEPT ![e] = None]
    /\ final_state' = [final_state EXCEPT ![e] = None]
    /\ wakeAt' = [wakeAt EXCEPT ![e] = 0]
    /\ startTime' = [startTime EXCEPT ![e] = 0]
    /\ file0' = [file0 EXCEPT ![e] = NoFile]
    /\ sampled' = [sampled EXCEPT ![e] = 0]
    /\ writeTime' = [writeTime EXCEPT ![e] = 0]
    /\ ops' = [ops EXCEPT ![e] = << >>]
    /\ UNCHANGED << now, secret_key, eggs, file, runs, posted >>

\* the wall clock runs on
Tick ==
    /\ now + ClockStep <= MaxTime
    /\ now' = now + ClockStep
    /\ UNCHANGED << secret_key, eggs, file, pc, locals, err, runs, history,
                    ops, posted >>

\* the wall clock reaches the instant a sleeping run asked to be woken at
TickToWake ==
    /\ \E e \in Engines :
          /\ pc[e] = "sleeping"
          /\ wakeAt[e] > now
          /\ now' = wakeAt[e]
    /\ UNCHANGED << secret_key, eggs, file, pc, locals, err, runs, history,
                    ops, posted >>

\* post_shop_to_discord.py, on_ready, lines 42-45: read shop.json (engine
\* 1's output file) and take current_shop from it
on_ready ==
    /\ posted' =
          IF file[1].kind = "absent"
          THEN [status |-> "FileNotFoundError", eggs |-> << >>]
          ELSE IF json_load_raises(file[1])
          THEN [status |-> "JSONDecodeError", eggs |-> << >>]
          ELSE IF file[1].kind # "object"
          THEN [status |-> "AttributeError", eggs |-> << >>]
          ELSE [status |-> "read",
                eggs |-> IF "current_shop" \in file[1].keys
                         THEN file[1].cur ELSE << >>]
    /\ UNCHANGED << now, secret_key, eggs, file, pc, locals, err, runs,
                    history, ops >>

\* Content the output file may have before a run, put there by anything
\* other than the engine: main, lines 172-174, reads whatever is there.
PriorShops == { << << >>, << "Rock", "Rock", "Rock" >> >>,
                << << "Rock", "Rock", "Rock" >>, << >> >> }

PriorStamps ==
    { Stamp("number", 0), Stamp("badstr", 0),
      Stamp("+00:00", get_current_time_slot(utc(now)).t),
      Stamp("naive", get_current_time_slot(utc(now)).t) }
    \cup { Stamp("Z", get_current_time_slot(utc(now)).t + k * IntervalSeconds) :
             k \in {-3, -1, 0, 1} }

PriorFiles ==
    { NoFile, FileOf("badjson"), FileOf("nonobject"),
      JsonObject({"current_shop", "next_shop"}, Stamp("naive", 0), << >>, << >>),
      JsonObject({"generated_at", "current_shop"},
                 Stamp("Z", get_current_time_slot(utc(now)).t), << >>, << >>) }
    \cup { JsonObject(AllKeys, ga, shops[1], shops[2]) :
             ga \in PriorStamps, shops \in PriorShops }

PlaceFile(e) ==
    /\ pc[e] = "idle"
    /\ \E f \in PriorFiles : file' = [file EXCEPT ![e] = f]
    /\ UNCHANGED << now, secret_key, eggs, pc, locals, err, runs, history,
                    ops, posted >>

Run(e) ==
    \/ Invoke(e)
    \/ Load(e)
    \/ Decide(e)
    \/ Wait(e)
    \/ Wake(e)
    \/ WriteOpen(e)
    \/ WriteClose(e)
    \/ WriteFail(e)
    \/ Exit(e)

\* one engine, a reader of its file, and arbitrary content found before a run
Next ==
    \/ Run(1)
    \/ PlaceFile(1)
    \/ Tick
    \/ TickToWake

Spec == Init /\ [][Next]_vars

\* two engines, each the only writer of its own file
NextPair ==
    \/ \E e \in Engines : Run(e)
    \/ Tick
    \/ TickToWake

SpecPair == Init /\ [][NextPair]_vars

\* one engine and the poster reading its file
NextReader ==
    \/ on_ready
    \/ Run(1)
    \/ Tick
    \/ TickToWake

SpecReader == Init /\ [][NextReader]_vars

\* the clock read at any second from StartTime to MaxTime by an invocation
InitClock ==
    /\ now \in StartTime .. MaxTime
    /\ NothingRun

NextClock == Invoke(1)

SpecClock == InitClock /\ [][NextClock]_vars

\* Spec with the progress the run and the clock make: the process goes on
\* from the call of wait_for_next_interval, the wall clock reaches every
\* instant a sleep waits for, and time.sleep returns once it has
Progress ==
    /\ WF_vars(Wait(1))
    /\ WF_vars(TickToWake)
    /\ WF_vars(Wake(1))

SpecLive == Init /\ [][Next]_vars /\ Progress

\* ------------------------------------------------------------- properties
\* the slot an instant lies in, by division
SlotOf(t) == (t \div IntervalSeconds) * IntervalSeconds

\* the draw the behaviour's key and table give for the slot at instant t
Draw(t) == generate_shop_inventory(secret_key, eggs, utc(t))

\* the file holding the two draws for slot t and the slot after it
FreshFile(t) ==
    JsonObject(AllKeys, Stamp("Z", t), Draw(t), Draw(t + IntervalSeconds))

Running(e) == pc[e] \in {"load", "decide", "wait", "sleeping", "write", "dump"}

\* C1: two engines with the same key and table, each with its own file and
\* its own history of runs, have persisted the same state whenever both
\* have completed a run started in the same slot, whatever the second at
\* which each started and however many runs each made before.
C1_SameSlotSameState ==
    ( /\ pc[1] = "done"
      /\ pc[2] = "done"
      /\ SlotOf(startTime[1]) = SlotOf(startTime[2]) )
    => file[1] = file[2]

C1_Witness ==
    /\ pc[1] = "done"
    /\ pc[2] = "done"
    /\ SlotOf(startTime[1]) = SlotOf(startTime[2])
    /\ startTime[1] # startTime[2]
    /\ runs[1] # runs[2]
    /\ file[1].kind = "object"

\* the prior state on file was parsed and is exactly one interval older
\* than the slot of the run
PriorAdjacent(e) ==
    /\ existing_state[e].some
    /\ existing_state[e].generated_at.t + IntervalSeconds
           = current_time_slot[e].t

C3_WrittenSlotIsSlotOfWrite ==
    pc[1] = "done"
    => /\ file[1].ga.t = SlotOf(writeTime[1])
       /\ file[1].cur = Draw(SlotOf(writeTime[1]))

\* C4: a run after an engine's first commits the state whose next_shop is
\* the draw for slot generated_at + interval before the wall clock reaches
\* that slot.
C4_NextCommittedBeforeActive ==
    \A e \in Engines :
        (pc[e] = "done" /\ runs[e] >= 2)
        => writeTime[e] < file[e].ga.t + IntervalSeconds

\* C5: a run that observed slot T leaves the file as it found it until it
\* has waited, and opens and writes it only at a wall-clock time of at
\* least T + interval.
C5_NoWriteBeforeBoundary ==
    /\ pc[1] \in {"load", "decide", "wait", "sleeping"} => file[1] = file0[1]
    /\ pc[1] \in {"write", "dump"}
           => now >= current_time_slot[1].t + IntervalSeconds
    /\ pc[1] = "done"
           => writeTime[1] >= current_time_slot[1].t + IntervalSeconds

C5_Witness ==
    /\ pc[1] = "done"
    /\ startTime[1] < current_time_slot[1].t + IntervalSeconds
    /\ wakeAt[1] = current_time_slot[1].t + IntervalSeconds
    /\ writeTime[1] = wakeAt[1]
    /\ file[1] # file0[1]

\* the prior state on file was parsed and carries the slot of the run
PriorFresh(e) ==
    /\ existing_state[e].some
    /\ datetime_eq(existing_state[e].generated_at, current_time_slot[e])

\* C6: a run that found a parsable prior state for its own slot samples
\* nothing and leaves on file the state that was on it: the same
\* generated_at instant, current_shop and next_shop.
C6_FreshIsNoOp ==
    (PriorFresh(1) /\ pc[1] \in {"wait", "sleeping", "write", "dump", "done"})
    => /\ sampled[1] = 0
       /\ pc[1] = "done"
              => /\ file[1].kind = "object"
                 /\ file[1].keys = AllKeys
                 /\ from_dict(file[1]) = from_dict(file0[1])

C6_Witness ==
    /\ PriorFresh(1)
    /\ pc[1] = "done"
    /\ file[1] = file0[1]
    /\ file[1] # FreshFile(current_time_slot[1].t)

\* the prior state on file was parsed and is more than one interval older
\* than the slot of the run, or later than it
PriorStale(e) ==
    /\ existing_state[e].some
    /\ \/ existing_state[e].generated_at.t + IntervalSeconds
              < current_time_slot[e].t
       \/ existing_state[e].generated_at.t > current_time_slot[e].t

\* C7: a completed run that found a stale or future prior state persists
\* the current slot with the draws for it and for the slot after it, and
\* no field of the prior state.
C7_StaleRegenerated ==
    (pc[1] = "done" /\ PriorStale(1))
    => /\ file[1] = FreshFile(current_time_slot[1].t)
       /\ from_dict(file[1]).generated_at # existing_state[1].generated_at

C7_WitnessOlder ==
    /\ pc[1] = "done"
    /\ existing_state[1].some
    /\ existing_state[1].generated_at.t + 3 * IntervalSeconds
           = current_time_slot[1].t
    /\ file[1].cur # existing_state[1].current_shop
    /\ file[1].next # existing_state[1].next_shop

C7_WitnessLater ==
    /\ pc[1] = "done"
    /\ existing_state[1].some
    /\ existing_state[1].generated_at.t > current_time_slot[1].t
    /\ file[1].ga.t = current_time_slot[1].t

\* the file is invalid JSON, or JSON without generated_at, or has a
\* generated_at that is no timestamp
Corrupt(f) ==
    \/ f.kind \in {"empty", "badjson"}
    \/ /\ f.kind = "object"
       /\ \/ "generated_at" \notin f.keys
          \/ f.ga.form \in {"number", "badstr"}

\* C8: a run that finds a corrupt file does not crash on it, and when it
\* completes it has persisted the draws for its slot and the slot after.
C8_CorruptFileRecovered ==
    (Corrupt(file0[1]) /\ pc[1] # "idle")
    => /\ err[1] \notin {"JSONDecodeError", "AttributeError"}
       /\ pc[1] = "done" => file[1] = FreshFile(current_time_slot[1].t)

\* C9: a reader of the file during or after a write never finds it empty
\* or cut short, and a write that fails leaves the previous state on file.
C9_AtomicSave ==
    /\ posted.status # "JSONDecodeError"
    /\ err[1] = "OSError" => file[1] = file0[1]

SamplingFailed(e) ==
    /\ pc[e] = "crashed"
    /\ err[e] \in {"ValueError: Egg list cannot be empty.",
                   "ValueError: Total of weights must be greater than zero"}

\* C10: a run whose sampling failed on an empty or invalid table never
\* reached the write, and the file has the content it had when the run
\* began.
C10_SamplingFailureWritesNothing ==
    SamplingFailed(1) => file[1] = file0[1] /\ writeTime[1] = 0

C10_Witness ==
    /\ SamplingFailed(1)
    /\ eggs # << >>
    /\ file0[1].kind = "object"
    /\ file[1] = file0[1]

\* the table is empty, or has a weight that is not positive, or sums to zero
InvalidTable(t) ==
    \/ t = << >>
    \/ \E i \in 1 .. Len(t) : t[i].chance <= 0
    \/ accumulate(egg_weights(t), Len(t)) = 0

\* C11: with an empty table, a table holding a weight <= 0, or a table
\* summing to zero, sampling is rejected: no run draws a shop from it.
C11_InvalidTableRejected ==
    InvalidTable(eggs) => sampled[1] # 2

\* a shop is a list of SHOP_SIZE names of the table
WellFormedShop(shop) ==
    /\ Len(shop) = SHOP_SIZE
    /\ \A i \in 1 .. Len(shop) :
           \E j \in 1 .. Len(eggs) : shop[i] = eggs[j].name

\* C12: every state a run has persisted holds two shops of exactly
\* SHOP_SIZE names of the table each, whatever was on file before.
C12_PersistedShopsWellFormed ==
    pc[1] = "done"
    => /\ WellFormedShop(file[1].cur)
       /\ WellFormedShop(file[1].next)

\* the instant has zero seconds and a minute that is a multiple of the
\* interval
SlotBoundary(t) ==
    /\ t % 60 = 0
    /\ ((t \div 60) % 60) % TIME_INTERVAL_MINUTES = 0

\* C13: from no file and with one writer per file, every complete state on
\* file has a slot boundary as generated_at, the draw seeded for
\* generated_at as current_shop and the draw seeded for generated_at +
\* interval as next_shop.
C13_ShopStateInvariant ==
    \A e \in Engines :
        file[e].kind = "object"
        => /\ file[e] = FreshFile(file[e].ga.t)
           /\ SlotBoundary(file[e].ga.t)

C13_Witness ==
    /\ pc[1] = "done"
    /\ runs[1] = 3
    /\ file[1].kind = "object"
    /\ file[1].ga.t \div 86400 > StartTime \div 86400
    /\ file[1].cur # file[1].next

\* how often op occurs in the sequence of operations
Count(seq, op) == Cardinality({i \in 1 .. Len(seq) : seq[i] = op})

\* reads come before samplings, samplings before the wait, the wait before
\* the write
Rank(op) ==
    CASE op = "read" -> 1
      [] op = "sample" -> 2
      [] op = "wait" -> 3
      [] op = "write" -> 4

InOrder(seq) ==
    \A i, j \in 1 .. Len(seq) : i < j => Rank(seq[i]) <= Rank(seq[j])

Ended(e) == pc[e] \in {"done", "crashed"}

WaitDecides ==
    (pc[1] = "wait" /\ pc'[1] # "wait")
    => IF now >= current_time_slot[1].t + IntervalSeconds
       THEN pc'[1] = "write" /\ wakeAt'[1] = wakeAt[1]
       ELSE /\ pc'[1] = "sleeping"
            /\ wakeAt'[1] = current_time_slot[1].t + IntervalSeconds
            /\ wakeAt'[1] - now \in 1 .. IntervalSeconds

\* C15: wait_for_next_interval returns at once, without sleeping, when the
\* wall clock is at or past slot + interval; otherwise it sleeps the time
\* left to slot + interval, at most one interval; and every call returns.
C15_WaitReturns ==
    /\ [][WaitDecides]_vars
    /\ (pc[1] \in {"wait", "sleeping"}) ~> (pc[1] = "write")

C15_Witness ==
    /\ pc[1] = "write"
    /\ wakeAt[1] = current_time_slot[1].t + IntervalSeconds
    /\ now = wakeAt[1]
    /\ startTime[1] > current_time_slot[1].t

C15_WitnessNoSleep ==
    /\ pc[1] = "write"
    /\ wakeAt[1] = 0
    /\ now > current_time_slot[1].t + IntervalSeconds

\* C16: the slot s read at instant t has zero seconds and a minute
\* divisible by the interval, s <= t < s + interval, every instant of
\* [s, s + interval) gives the same s, and s + interval is the slot read at
\* s + interval, across hour and day boundaries too.
C16_SlotTruncation ==
    pc[1] = "load"
    => LET s == current_time_slot[1].t
           t == startTime[1]
       IN  /\ current_time_slot[1].aware
           /\ SlotBoundary(s)
           /\ s <= t
           /\ t < s + IntervalSeconds
           /\ \A u \in s .. s + IntervalSeconds - 1 :
                  get_current_time_slot(utc(u)) = current_time_slot[1]
           /\ get_current_time_slot(utc(s + IntervalSeconds)).t
                  = s + IntervalSeconds

\* a second in the last minute before midnight, whose slot ends at the day
\* boundary
C16_Witness ==
    /\ pc[1] = "load"
    /\ startTime[1] % 60 = 59
    /\ (startTime[1] + 1) % 86400 = 0
    /\ current_time_slot[1].t + IntervalSeconds = startTime[1] + 1

\* C17: the state a run is about to write or has written, serialized and
\* read back, is the same state; its generated_at text ends in Z; and the
\* generated_at read back from the written file equals the slot of the run.
C17_RoundTrip ==
    /\ final_state[1].some
          => /\ from_dict_outcome(to_dict(final_state[1])) = "ok"
             /\ from_dict(to_dict(final_state[1])) = final_state[1]
             /\ to_dict(final_state[1]).ga.form = "Z"
    /\ pc[1] = "done"
          => /\ from_dict(file[1]) = final_state[1]
             /\ datetime_eq(from_dict(file[1]).generated_at,
                            current_time_slot[1])
             /\ up_to_date(from_dict(file[1]), current_time_slot[1])

C17_Witness ==
    /\ pc[1] = "done"
    /\ sampled[1] = 2
    /\ file[1].ga = Stamp("Z", current_time_slot[1].t)
    /\ from_dict(file[1]) = final_state[1]
    /\ file[1].ga.t \div 86400 > StartTime \div 86400

\* the run of engine e has chosen the state it writes
Chosen(e) == pc[e] \in {"wait", "sleeping", "write", "dump", "done"}

\* C18: with only the engine writing its file, the state a run has written
\* carries a generated_at earlier than the slot of the instant of the
\* write; no run finds on file a generated_at equal to its slot, and every
\* run that chooses a state samples both shops.
C18_WrittenSlotAlreadyOver ==
    \A e \in Engines :
        /\ pc[e] = "done"
              => from_dict(file[e]).generated_at.t < SlotOf(writeTime[e])
        /\ Chosen(e) => ~PriorFresh(e) /\ sampled[e] = 2

C18_Witness ==
    /\ pc[1] = "done"
    /\ runs[1] >= 2
    /\ existing_state[1].some
    /\ sampled[1] = 2
    /\ file[1].ga.t + IntervalSeconds = SlotOf(writeTime[1])

\* The rotation machine of the design (section 4.5): the state of a run
\* with the given prior state at the given slot.
PriorStateClass(prior, slot) ==
    IF ~prior.some THEN "NoPriorState"
    ELSE IF datetime_eq(prior.generated_at, slot) THEN "PriorStateFresh"
    ELSE IF datetime_eq(timedelta_minutes(prior.generated_at,
                                          TIME_INTERVAL_MINUTES), slot)
         THEN "PriorStateAdjacent"
    ELSE "PriorStateStale"

RotationEngine(prior, slot) ==
    CASE PriorStateClass(prior, slot) = "PriorStateFresh" -> prior
      [] PriorStateClass(prior, slot) = "PriorStateAdjacent" ->
            ShopState(slot, prior.next_shop,
                      generate_shop_inventory(secret_key, eggs,
                          timedelta_minutes(slot, TIME_INTERVAL_MINUTES)))
      [] OTHER ->
            ShopState(slot,
                      generate_shop_inventory(secret_key, eggs, slot),
                      generate_shop_inventory(secret_key, eggs,
                          timedelta_minutes(slot, TIME_INTERVAL_MINUTES)))

\* C19: from no file and with only the engine writing, every run that
\* completes has persisted the state the four-state rotation machine gives
\* for the prior state it read and its slot; after a run one slot earlier,
\* the current_shop it persists is the next_shop that run persisted.
C19_TwoWayMatchesRotationMachine ==
    \A e \in Engines :
        pc[e] = "done"
        => /\ file[e] = to_dict(RotationEngine(existing_state[e],
                                               current_time_slot[e]))
           /\ PriorAdjacent(e) => file[e].cur = file0[e].next

C19_Witness ==
    /\ pc[1] = "done"
    /\ PriorStateClass(existing_state[1], current_time_slot[1])
           = "PriorStateAdjacent"
    /\ file[1].cur = file0[1].next
    /\ file[1].cur # file0[1].cur
    /\ sampled[1] = 2

C19_WitnessStale ==
    /\ pc[1] = "done"
    /\ PriorStateClass(existing_state[1], current_time_slot[1])
           = "PriorStateStale"

====
